---- MODULE Spec2Model ----
(***************************************************************************)
(* Model of the embedding search engine: the sqlite embedding cache        *)
(* (cache_manager.py), the index builder and query engine                  *)
(* (search_engine.py), the embedding provider's interface (embedder.py),   *)
(* the text helpers (utils.py) and the HTTP handlers (api.py).             *)
(*                                                                         *)
(* Vectors are pairs of fixed-point numbers with Scale units per 1.0.      *)
(* Python's None is the empty sequence and a present value x is <<x>>.     *)
(***************************************************************************)
EXTENDS Integers, Sequences, FiniteSets, TLC

\* ------------------------------------------------------------------ bounds
\* Number of times a user edits or removes a file of the documents folder in
\* one behaviour (the dataset download is not counted: it always writes the
\* same files).
MaxEdits == 1
\* The wall clock stops the model after this many cache writes.
MaxClock == 3

\* ------------------------------------------------------------ data domains
Scale == 10

\* File names are (stem, extension) pairs, listed in lexicographic order.
TxtFiles == << [stem |-> "d1", ext |-> ".txt"],
               [stem |-> "d2", ext |-> ".txt"] >>

OtherFile == [stem |-> "readme", ext |-> ".md"]

FileOrder == TxtFiles \o <<OtherFile>>

FileNames == {FileOrder[i] : i \in 1..Len(FileOrder)}

RawTexts == {"The Cat", "<b>Dogs</b>"}

\* what a user writes into a file: d1.txt always gets the same text
FileTexts(f) == IF f.stem = "d1" THEN {"The Cat"} ELSE RawTexts

NoFile == "<absent>"

Queries == {"", "   ", "cat"}

\* the queries a script passes to engine.search
LibQueries == {"cat"}

\* top_k of a request: from the invalid 0 to the number of files, which is
\* more than there are documents when only one is indexed
TopKs == 0..Len(TxtFiles)

\* top_k a script passes to engine.search
LibTopKs == 1..Len(TxtFiles)

\* ----------------------------------------------------------- Python values
None == <<>>

Some(x) == <<x>>

Val(o) == o[1]

Range(s) == {s[i] : i \in 1..Len(s)}

\* seq[i] of Python for a 0-based i, negative i counting from the end;
\* InRange tells whether it raises IndexError.
InRange(s, i) == (i >= 0 /\ i < Len(s)) \/ (i < 0 /\ -i <= Len(s))

PyIndex(s, i) == IF i >= 0 THEN s[i + 1] ELSE s[Len(s) + i + 1]

\* seq[:k] of Python.
PySlice(s, k) ==
    IF k >= 0
    THEN SubSeq(s, 1, IF k < Len(s) THEN k ELSE Len(s))
    ELSE SubSeq(s, 1, IF Len(s) + k > 0 THEN Len(s) + k ELSE 0)

\* ------------------------------------------------------------------- utils
\* clean_text: lower-case, replace tags by a blank, collapse white space, strip.
clean_text(raw) ==
    CASE raw = "The Cat" -> "the cat"
      [] raw = "<b>Dogs</b>" -> "dogs"
      [] OTHER -> raw

\* len(cleaned.split())
WordCount(text) ==
    CASE text = "the cat" -> 2
      [] text = "dogs" -> 1
      [] OTHER -> 0

\* tokenize: lower-cased \w+ tokens that are no English stop word.
tokenize(text) ==
    CASE text = "the cat" -> {"cat"}
      [] text = "dogs" -> {"dogs"}
      [] text = "cat" -> {"cat"}
      [] text = "the dogs" -> {"dogs"}
      [] OTHER -> {}

\* str.strip() leaves nothing
IsBlank(text) == text \in {"", "   "}

\* hashlib.sha256(text.encode('utf-8')).hexdigest()
sha256(text) ==
    CASE text = "the cat" -> "7a1c"
      [] text = "dogs" -> "e09b"
      [] OTHER -> "e3b0"

\* --------------------------------------------------------------- embedder
Zero == <<0, 0>>

\* SentenceTransformer.encode on one text
Encode(text) ==
    CASE text = "the cat" -> <<3, 4>>
      [] text = "dogs" -> <<8, 6>>
      [] text = "cat" -> <<4, 3>>
      [] text = "the dogs" -> <<6, 8>>
      [] OTHER -> <<1, 0>>

\* mutant: the provider returns the vectors of a batch in reverse order
embed_Reversed(texts) == [j \in 1..Len(texts) |-> Encode(texts[Len(texts) + 1 - j])]

\* Embedder.embed: one vector per text, in input order
embed(texts) == [j \in 1..Len(texts) |-> Encode(texts[j])]

\* Embedder.embed_one
embed_one(text) == IF IsBlank(text) THEN Zero ELSE Encode(text)

\* ------------------------------------------------------------ vector maths
Abs(x) == IF x < 0 THEN -x ELSE x

Dot(a, b) == a[1] * b[1] + a[2] * b[2]

\* np.linalg.norm, rounded down to the fixed-point grid
Norm(v) ==
    CHOOSE r \in 0..(Abs(v[1]) + Abs(v[2])) :
        r * r <= Dot(v, v) /\ (r + 1) * (r + 1) > Dot(v, v)

\* v / norm with the zero norm replaced by 1e-9: a zero row stays zero
Normalize(v) ==
    LET n == Norm(v)
    IN IF n = 0 THEN Zero ELSE <<(v[1] * Scale) \div n, (v[2] * Scale) \div n>>

NormalizeRows(m) == [i \in 1..Len(m) |-> Normalize(m[i])]

\* np.dot(matrix, q): a similarity of 1.0 is Scale * Scale
Sims(m, q) == [i \in 1..Len(m) |-> Dot(m[i], q)]

\* np.argsort(-sims), 0-based. The sort kernel is not stable: equal
\* similarities come out in ascending index order under one build of the
\* library (tieAsc) and in descending order under another.
RECURSIVE ArgSortFrom(_, _, _)
ArgSortFrom(sims, left, tieAsc) ==
    IF left = {} THEN <<>>
    ELSE LET best == CHOOSE i \in left : \A j \in left :
                        \/ sims[i] > sims[j]
                        \/ sims[i] = sims[j] /\ (IF tieAsc THEN i <= j ELSE i >= j)
         IN <<best - 1>> \o ArgSortFrom(sims, left \ {best}, tieAsc)

\* mutant: the similarities are sorted without the negation, ascending
ArgSort_Ascending(sims, tieAsc) ==
    ArgSortFrom([i \in DOMAIN sims |-> -sims[i]], DOMAIN sims, tieAsc)

ArgSort(sims, tieAsc) == ArgSortFrom(sims, DOMAIN sims, tieAsc)

\* ----------------------------------------------------------- cache manager
\* pickle.dumps / pickle.loads
dumps(embedding) == [pickle |-> embedding]

loads(blob) == blob.pickle

\* CacheManager.get: SELECT ... WHERE doc_id=? ; fetchone
get(rows, doc_id) ==
    IF \E r \in rows : r.doc_id = doc_id
    THEN LET r == CHOOSE x \in rows : x.doc_id = doc_id
         IN Some([doc_id |-> doc_id, filename |-> r.filename, hash |-> r.hash,
                  embedding |-> loads(r.embedding), updated_at |-> r.updated_at])
    ELSE None

\* mutant: the table is emptied before the record is inserted
upsert_ReplaceTable(rows, doc_id, filename, hashv, embedding, now) ==
    {[doc_id |-> doc_id, filename |-> filename, hash |-> hashv,
      embedding |-> dumps(embedding), updated_at |-> now]}

\* mutant: a plain INSERT into a table without the primary key
upsert_InsertOnly(rows, doc_id, filename, hashv, embedding, now) ==
    rows \cup {[doc_id |-> doc_id, filename |-> filename, hash |-> hashv,
                embedding |-> dumps(embedding), updated_at |-> now]}

\* CacheManager.upsert: INSERT OR REPLACE on the primary key doc_id, then commit
upsert(rows, doc_id, filename, hashv, embedding, now) ==
    {r \in rows : r.doc_id # doc_id} \cup
        {[doc_id |-> doc_id, filename |-> filename, hash |-> hashv,
          embedding |-> dumps(embedding), updated_at |-> now]}

\* ------------------------------------------------ the ordered dict doc_texts
\* A dict is a sequence of [key, value] records in insertion order.
Keys(d) == [i \in 1..Len(d) |-> d[i].key]

HasKey(d, k) == \E i \in 1..Len(d) : d[i].key = k

Lookup(d, k) == d[CHOOSE i \in 1..Len(d) : d[i].key = k].value

\* mutant: d[k] = v as delete and re-insert, an existing key moves to the end
DictSet_MoveToEnd(d, k, v) ==
    Append(SelectSeq(d, LAMBDA e : e.key # k), [key |-> k, value |-> v])

\* d[k] = v: an existing key keeps its position
DictSet(d, k, v) ==
    IF HasKey(d, k)
    THEN [i \in 1..Len(d) |-> IF d[i].key = k THEN [key |-> k, value |-> v] ELSE d[i]]
    ELSE Append(d, [key |-> k, value |-> v])

\* ------------------------------------------------------ SearchEngine.load_docs
\* [f for f in os.listdir(folder) if f.endswith('.txt')], sorted
ListTxt(files) ==
    SelectSeq(FileOrder, LAMBDA f : files[f] # NoFile /\ f.ext = ".txt")

RECURSIVE LoadTexts(_, _, _)
LoadTexts(texts, files, todo) ==
    IF todo = <<>> THEN texts
    ELSE LET fn == Head(todo)
         IN LoadTexts(DictSet(texts, fn.stem, clean_text(files[fn])), files, Tail(todo))

RECURSIVE LoadMeta(_, _, _)
LoadMeta(meta, files, todo) ==
    IF todo = <<>> THEN meta
    ELSE LET fn == Head(todo)
         IN LoadMeta(DictSet(meta, fn.stem,
                             [filename |-> fn, length |-> WordCount(clean_text(files[fn]))]),
                     files, Tail(todo))

\* ---------------------------------------------------- SearchEngine.build_index
\* mutant: an entry counts as valid whatever hash it holds
IsHit_IgnoresHash(rows, doc_id, text, force_recompute) ==
    LET cache_row == get(rows, doc_id)
    IN /\ cache_row # None
       /\ ~force_recompute

\* mutant: the hash comparison is inverted
IsHit_HashInverted(rows, doc_id, text, force_recompute) ==
    LET cache_row == get(rows, doc_id)
    IN /\ cache_row # None
       /\ Val(cache_row).hash # sha256(text)
       /\ ~force_recompute

\* mutant: force_recompute is not consulted
IsHit_IgnoresForce(rows, doc_id, text, force_recompute) ==
    LET cache_row == get(rows, doc_id)
    IN /\ cache_row # None
       /\ Val(cache_row).hash = sha256(text)

\* the cache check of one document
IsHit(rows, doc_id, text, force_recompute) ==
    LET cache_row == get(rows, doc_id)
    IN /\ cache_row # None
       /\ Val(cache_row).hash = sha256(text)
       /\ ~force_recompute

\* the first loop: doc_ids, emb_list with None placeholders, to_compute(_idx)
Scan(texts, rows, force_recompute) ==
    LET n == Len(texts)
        hit == [i \in 1..n |-> IsHit(rows, texts[i].key, texts[i].value, force_recompute)]
        missIdx == SelectSeq([i \in 1..n |-> i], LAMBDA i : ~hit[i])
    IN [doc_ids |-> Keys(texts),
        emb_list |-> [i \in 1..n |->
                        IF hit[i] THEN Some(Val(get(rows, texts[i].key)).embedding)
                        ELSE None],
        to_compute |-> [j \in 1..Len(missIdx) |-> texts[missIdx[j]].value],
        to_compute_idx |-> [j \in 1..Len(missIdx) |-> missIdx[j] - 1]]

\* mutant: one provider call per document to compute
ProviderCalls_PerDocument(to_compute) == [j \in 1..Len(to_compute) |-> <<to_compute[j]>>]

\* lines 66-67: the calls of embedder.embed, each with its batch
ProviderCalls(to_compute) == IF to_compute # <<>> THEN <<to_compute>> ELSE <<>>

\* one pass of the second loop body: emb_list[idx] = computed[j]
FillOne(emb_list, scan, computed, j) ==
    [emb_list EXCEPT ![scan.to_compute_idx[j] + 1] = Some(computed[j])]

\* mutant: the entry is written with its hash but without the computed vector
UpsertOne_HashOnly(rows, scan, computed, texts, meta, j, now) ==
    LET doc_id == PyIndex(scan.doc_ids, scan.to_compute_idx[j])
    IN upsert(rows, doc_id, Lookup(meta, doc_id).filename,
              sha256(Lookup(texts, doc_id)), Zero, now)

\* mutant: the document is taken at j, the position in the batch, not at idx
UpsertOne_DocAtJ(rows, scan, computed, texts, meta, j, now) ==
    LET doc_id == scan.doc_ids[j]
    IN upsert(rows, doc_id, Lookup(meta, doc_id).filename,
              sha256(Lookup(texts, doc_id)), computed[j], now)

\* one pass of the second loop body: the cache.upsert call
UpsertOne(rows, scan, computed, texts, meta, j, now) ==
    LET doc_id == PyIndex(scan.doc_ids, scan.to_compute_idx[j])
    IN upsert(rows, doc_id, Lookup(meta, doc_id).filename,
              sha256(Lookup(texts, doc_id)), computed[j], now)

\* the second loop run for j = 1..k
RECURSIVE FillTo(_, _, _)
FillTo(scan, computed, k) ==
    IF k = 0 THEN scan.emb_list
    ELSE FillOne(FillTo(scan, computed, k - 1), scan, computed, k)

RECURSIVE UpsertTo(_, _, _, _, _, _, _)
UpsertTo(rows, scan, computed, texts, meta, k, clk) ==
    IF k = 0 THEN rows
    ELSE UpsertOne(UpsertTo(rows, scan, computed, texts, meta, k - 1, clk),
                   scan, computed, texts, meta, k, clk + k)

\* np.vstack([np.array(e, dtype=np.float32) for e in emb_list])
\* raises ValueError on an empty list
VstackRaises(emb_list) == emb_list = <<>>

Vstack(emb_list) == [i \in 1..Len(emb_list) |-> Val(emb_list[i])]

\* -------------------------------------------------------- SearchEngine.search
\* q_emb / (np.linalg.norm(q_emb) + 1e-9)
NormalizeQuery(q_emb) == Normalize(q_emb)

\* score of a label faiss could not fill
FaissMissingScore == -34028235

\* IndexFlatIP.search(q, k): k results, labels -1 where the index runs out
FaissSearch(idx, q, top_k, tieAsc) ==
    LET sims == Sims(idx, q)
        order == ArgSort(sims, tieAsc)
    IN [I |-> [p \in 1..top_k |-> IF p <= Len(order) THEN order[p] ELSE -1],
        D |-> [p \in 1..top_k |->
                 IF p <= Len(order) THEN sims[order[p] + 1] ELSE FaissMissingScore]]

\* lines 93-105: the ranked positions and scores, or an exception
Retrieve(emb, idx, faissOn, query, top_k, tieAsc) ==
    LET q == NormalizeQuery(embed_one(query))
    IN IF faissOn
       THEN IF idx = None \/ top_k <= 0
            THEN [ok |-> FALSE, idxs |-> <<>>, scores |-> <<>>]
            ELSE LET r == FaissSearch(Val(idx), q, top_k, tieAsc)
                 IN [ok |-> TRUE, idxs |-> r.I, scores |-> r.D]
       ELSE IF emb = None
            THEN [ok |-> FALSE, idxs |-> <<>>, scores |-> <<>>]
            ELSE LET sims == Sims(Val(emb), q)
                     idxs == PySlice(ArgSort(sims, tieAsc), top_k)
                 IN [ok |-> TRUE, idxs |-> idxs,
                     scores |-> [p \in 1..Len(idxs) |-> sims[idxs[p] + 1]]]

\* one entry of the result list (texts here are shorter than 200 characters,
\* so the preview is the whole text)
ResultFor(doc_id, s, texts, query) ==
    LET text == Lookup(texts, doc_id)
        q_tokens == tokenize(query)
        overlap == q_tokens \cap tokenize(text)
    IN [doc_id |-> doc_id, score |-> s, preview |-> text,
        match_info |-> [token_overlap |-> Cardinality(overlap),
                        overlap_ratio |-> IF q_tokens # {}
                                          THEN (1000 * Cardinality(overlap))
                                                   \div Cardinality(q_tokens)
                                          ELSE 0,
                        matched_tokens |-> overlap]]

\* lines 107-132: the result list, or an IndexError / KeyError
Results(idxs, scores, ids, texts, query) ==
    IF \A p \in 1..Len(idxs) :
          InRange(ids, idxs[p]) /\ HasKey(texts, PyIndex(ids, idxs[p]))
    THEN [ok |-> TRUE,
          results |-> [p \in 1..Len(idxs) |->
                         ResultFor(PyIndex(ids, idxs[p]), scores[p], texts, query)]]
    ELSE [ok |-> FALSE, results |-> <<>>]

\* SearchEngine.search as one call
search(emb, idx, ids, texts, faissOn, query, top_k, tieAsc) ==
    LET r == Retrieve(emb, idx, faissOn, query, top_k, tieAsc)
    IN IF r.ok THEN Results(r.idxs, r.scores, ids, texts, query)
       ELSE [ok |-> FALSE, results |-> <<>>]

\* ===================================================================== state
VARIABLES
    docs_exists,      \* os.path.exists(DOCS_FOLDER)
    disk,             \* the documents folder: file name -> raw content or NoFile
    edits,            \* how often the folder was edited
    tieAsc,           \* the tie order of the sort kernels the process loaded
    rows,             \* the embeddings table of the sqlite file
    clock,            \* datetime.now(), one tick per cache write
    proc,             \* "down", "lib" (a script drives a SearchEngine), "api"
    conn,             \* the engine's sqlite connection: "none", "open", "closed"
    engine,           \* api.py's global: None or Some("SearchEngine")
    use_faiss, doc_texts, doc_meta, embeddings, doc_ids, index,
    obs,              \* what the last call did and returned
    hist,             \* the previous build_index call on this engine
    gen,              \* how many build_index calls began to assign the index fields
    stamp,            \* which of them wrote embeddings, doc_ids and index last
    bld,              \* the /rebuild worker thread
    srch              \* the /search worker thread

vars == <<docs_exists, disk, edits, tieAsc, rows, clock, proc, conn,
          engine, use_faiss, doc_texts, doc_meta, embeddings, doc_ids, index, obs,
          hist, gen, stamp, bld, srch>>

envVars == <<docs_exists, disk, edits>>

installVars == <<tieAsc>>

fieldVars == <<use_faiss, doc_texts, doc_meta, embeddings, doc_ids, index>>

threadVars == <<gen, stamp, bld, srch>>

EmptyDisk == [f \in FileNames |-> NoFile]

\* the record every call leaves in obs
NoObs ==
    [op |-> "none", status |-> "ok", force |-> FALSE, query |-> "", top_k |-> 0,
     results |-> <<>>, called |-> FALSE, embedded |-> <<>>, scan_ids |-> <<>>,
     computed_ids |-> {}, emb_list |-> None, kept |-> {}, written |-> {},
     embed_calls |-> <<>>,
     fault |-> 0, reads |-> None]

NoHist == [called |-> FALSE, ok |-> FALSE, texts |-> <<>>, rows |-> {}]

NoStamp == [emb |-> 0, normalized |-> TRUE, ids |-> 0, idx |-> 0]

IdleBld == [pc |-> "idle", embs |-> <<>>, ids |-> <<>>, fault |-> 0]

IdleSrch == [pc |-> "idle", query |-> "", top_k |-> 0, idxs |-> <<>>, scores |-> <<>>,
             read |-> None]

Init ==
    /\ docs_exists = FALSE
    /\ disk = EmptyDisk
    /\ edits = 0
    /\ tieAsc = TRUE
    /\ rows = {}
    /\ clock = 0
    /\ proc = "down"
    /\ conn = "none"
    /\ engine = None
    /\ use_faiss = FALSE
    /\ doc_texts = <<>>
    /\ doc_meta = <<>>
    /\ embeddings = None
    /\ doc_ids = <<>>
    /\ index = None
    /\ obs = NoObs
    /\ hist = NoHist
    /\ gen = 0
    /\ stamp = NoStamp
    /\ bld = IdleBld
    /\ srch = IdleSrch

\* ------------------------------------------------------------- environment
\* The server lists the folder only in its startup, so an edit made while it
\* runs is the same edit made after it stopped; edits wait for that.
\* os.makedirs(SAVE_FOLDER, exist_ok=True), or the user creating the folder
MakeDocsFolder ==
    /\ proc # "api"
    /\ ~docs_exists
    /\ docs_exists' = TRUE
    /\ disk' = [disk EXCEPT ![OtherFile] = "The Cat"]
    /\ UNCHANGED <<edits, tieAsc, rows, clock, proc, conn,
                   engine, fieldVars, obs, hist, threadVars>>

\* a file of the folder is created or rewritten
WriteFile(f, raw) ==
    /\ proc # "api"
    /\ docs_exists
    /\ edits < MaxEdits
    /\ disk[f] # raw
    /\ disk' = [disk EXCEPT ![f] = raw]
    /\ edits' = edits + 1
    /\ UNCHANGED <<docs_exists, tieAsc, rows, clock, proc, conn,
                   engine, fieldVars, obs, hist, threadVars>>

\* a file of the folder is removed
DeleteFile(f) ==
    /\ proc # "api"
    /\ docs_exists
    /\ edits < MaxEdits
    /\ disk[f] # NoFile
    /\ disk' = [disk EXCEPT ![f] = NoFile]
    /\ edits' = edits + 1
    /\ UNCHANGED <<docs_exists, tieAsc, rows, clock, proc, conn,
                   engine, fieldVars, obs, hist, threadVars>>

\* download_dataset.save_dataset: makedirs, then one file per dataset entry
DatasetText(f) ==
    CASE f.stem = "d1" -> "The Cat"
      [] OTHER -> "<b>Dogs</b>"

save_dataset ==
    /\ proc # "api"
    /\ docs_exists' = TRUE
    /\ disk' = [f \in FileNames |->
                  IF f \in Range(TxtFiles) THEN DatasetText(f)
                  ELSE IF docs_exists THEN disk[f] ELSE "The Cat"]
    /\ disk' # disk
    /\ UNCHANGED <<edits, tieAsc, rows, clock, proc, conn,
                   engine, fieldVars, obs, hist, threadVars>>

\* ------------------------------------------------------------ SearchEngine
\* a failure injected into one build_index call: 0 none, -1 the embedding
\* provider raises, n >= 1 the n-th cache.upsert raises, -2 the first
\* statement after the two assignments of lines 74-75 raises (faiss or numpy
\* out of memory at line 80 or 87)
Faults == -2..Len(TxtFiles)

FaultApplies(fault, n) ==
    fault = 0 \/ fault = -2 \/ (fault = -1 /\ n > 0) \/ (fault >= 1 /\ fault <= n)

\* the documents whose text is what it was at the previous build_index call
\* of this engine, each with the vector the cache held for that text when the
\* call ended (None if it held none), and whether the call returned
KeptSince(h, texts) ==
    {[doc_id |-> d,
      ok |-> h.ok,
      vec |-> IF get(h.rows, d) = None
                 \/ Val(get(h.rows, d)).hash # sha256(Lookup(texts, d))
              THEN None
              ELSE Some(Val(get(h.rows, d)).embedding)] :
        d \in {x \in Range(Keys(texts)) :
                 /\ h.called
                 /\ HasKey(h.texts, x)
                 /\ Lookup(h.texts, x) = Lookup(texts, x)}}

\* build_index(force_recompute) run to its end or to the injected failure
build_index(scan, texts, meta, rws, clk, force_recompute, fault, faissOn, h) ==
    LET n == Len(scan.to_compute)
        computed == embed(scan.to_compute)
        done == IF fault = -1 THEN 0 ELSE IF fault >= 1 THEN fault - 1 ELSE n
        filled == FillTo(scan, computed, done)
        raised == fault # 0 \/ VstackRaises(filled)
        embs == Vstack(filled)
    IN [ok |-> ~raised,
        assigned |-> fault \in {0, -2} /\ ~VstackRaises(filled),
        embs |-> IF fault \in {0, -2} /\ ~VstackRaises(filled) THEN embs ELSE <<>>,
        rows |-> UpsertTo(rws, scan, computed, texts, meta, done, clk),
        clock |-> clk + done,
        embeddings |-> IF raised THEN None ELSE Some(NormalizeRows(embs)),
        doc_ids |-> scan.doc_ids,
        index |-> IF faissOn /\ ~raised THEN Some(NormalizeRows(embs)) ELSE None,
        obs |-> [NoObs EXCEPT
                   !.op = "build",
                   !.status = IF raised THEN "error" ELSE "ok",
                   !.force = force_recompute,
                   !.fault = fault,
                   !.called = n > 0,
                   !.embedded = scan.to_compute,
                   !.embed_calls = ProviderCalls(scan.to_compute),
                   !.scan_ids = scan.doc_ids,
                   !.computed_ids = {PyIndex(scan.doc_ids, scan.to_compute_idx[j]) :
                                        j \in 1..n},
                   !.emb_list = IF raised THEN None ELSE Some(embs),
                   !.kept = KeptSince(h, texts),
                   !.written = {PyIndex(scan.doc_ids, scan.to_compute_idx[j]) :
                                   j \in 1..done}]]

\* SearchEngine.__init__ opens the cache and starts with nothing loaded
Construct(use_faiss_arg, FAISS_AVAILABLE) ==
    /\ conn' = "open"
    /\ use_faiss' = (use_faiss_arg /\ FAISS_AVAILABLE)
    /\ doc_texts' = <<>>
    /\ doc_meta' = <<>>
    /\ embeddings' = None
    /\ doc_ids' = <<>>
    /\ index' = None
    /\ hist' = NoHist

\* a script creates an engine of its own
LibStart(use_faiss_arg, FAISS_AVAILABLE) ==
    /\ proc = "down"
    /\ proc' = "lib"
    /\ tieAsc' \in BOOLEAN
    /\ Construct(use_faiss_arg, FAISS_AVAILABLE)
    /\ obs' = [NoObs EXCEPT !.op = "init"]
    /\ UNCHANGED <<envVars, rows, clock, engine, threadVars>>

\* engine.load_docs()
LoadDocs ==
    /\ proc = "lib"
    /\ IF docs_exists
       THEN /\ doc_texts' = LoadTexts(doc_texts, disk, ListTxt(disk))
            /\ doc_meta' = LoadMeta(doc_meta, disk, ListTxt(disk))
            /\ obs' = [NoObs EXCEPT !.op = "load"]
       ELSE /\ UNCHANGED <<doc_texts, doc_meta>>
            /\ obs' = [NoObs EXCEPT !.op = "load", !.status = "error"]
    /\ UNCHANGED <<envVars, installVars, rows, clock, proc, conn, engine, use_faiss,
                   embeddings, doc_ids, index, hist, threadVars>>

\* the effect of one build_index call on the engine and the cache
ApplyBuild(out) ==
    /\ rows' = out.rows
    /\ clock' = out.clock
    /\ IF out.ok
       THEN /\ embeddings' = out.embeddings
            /\ doc_ids' = out.doc_ids
            /\ index' = out.index
       ELSE IF out.assigned
       THEN /\ embeddings' = Some(out.embs)
            /\ doc_ids' = out.doc_ids
            /\ UNCHANGED index
       ELSE UNCHANGED <<embeddings, doc_ids, index>>
    /\ hist' = [called |-> TRUE, ok |-> out.ok, texts |-> doc_texts, rows |-> out.rows]

\* engine.build_index(force_recompute)
BuildIndex(force_recompute) ==
    /\ proc = "lib"
    /\ LET scan == Scan(doc_texts, rows, force_recompute)
       IN /\ clock + Len(scan.to_compute) <= MaxClock
          /\ \E fault \in Faults :
                /\ FaultApplies(fault, Len(scan.to_compute))
                /\ LET out == build_index(scan, doc_texts, doc_meta, rows, clock,
                                          force_recompute, fault, use_faiss, hist)
                   IN ApplyBuild(out) /\ obs' = out.obs
    /\ UNCHANGED <<envVars, installVars, proc, conn, engine, use_faiss, doc_texts,
                   doc_meta, threadVars>>

\* what a search leaves in obs
SearchObs(r, query, top_k) ==
    [NoObs EXCEPT
       !.op = "search",
       !.status = IF r.ok THEN "ok" ELSE "error",
       !.query = query,
       !.top_k = top_k,
       !.called = TRUE,
       !.embedded = <<query>>,
       !.results = r.results]

\* engine.search(query, top_k)
Search(query, top_k) ==
    /\ proc = "lib"
    /\ obs' = SearchObs(search(embeddings, index, doc_ids, doc_texts, use_faiss,
                               query, top_k, tieAsc), query, top_k)
    /\ UNCHANGED <<envVars, installVars, rows, clock, proc, conn, engine, fieldVars,
                   hist, threadVars>>

\* the script ends; the sqlite file stays
LibExit ==
    /\ proc = "lib"
    /\ proc' = "down"
    /\ conn' = "none"
    /\ use_faiss' = FALSE
    /\ doc_texts' = <<>>
    /\ doc_meta' = <<>>
    /\ embeddings' = None
    /\ doc_ids' = <<>>
    /\ index' = None
    /\ hist' = NoHist
    /\ obs' = NoObs
    /\ tieAsc' = TRUE
    /\ UNCHANGED <<envVars, rows, clock, engine, threadVars>>

\* ------------------------------------------------------------------ api.py
\* builds of one engine after which /rebuild is no longer requested
MaxBuilds == 2

\* mutant: the comparison as `len(doc_count) == 0`
ListEqualsInt_Len(list, n) == Len(list) = n

\* `doc_count == 0` where doc_count is the list load_docs returned:
\* a Python list never equals an int
ListEqualsInt(list, n) == FALSE

ApiObs(op, status) == [NoObs EXCEPT !.op = op, !.status = status]

\* lifespan, up to the yield
ApiStartup(FAISS_AVAILABLE) ==
    /\ proc = "down"
    /\ proc' = "api"
    /\ tieAsc' \in BOOLEAN
    /\ IF ~docs_exists
       THEN /\ engine' = None
            /\ conn' = "none"
            /\ obs' = ApiObs("startup", "no folder")
            /\ UNCHANGED <<rows, clock, fieldVars, hist, gen, stamp>>
       ELSE LET texts == LoadTexts(<<>>, disk, ListTxt(disk))
                meta == LoadMeta(<<>>, disk, ListTxt(disk))
                doc_count == Keys(texts)
                scan == Scan(texts, rows, FALSE)
                n == Len(scan.to_compute)
            IN /\ conn' = "open"
               /\ use_faiss' = (TRUE /\ FAISS_AVAILABLE)
               /\ doc_texts' = texts
               /\ doc_meta' = meta
               /\ IF ListEqualsInt(doc_count, 0)
                  THEN /\ engine' = Some("SearchEngine")
                       /\ obs' = ApiObs("startup", "no documents")
                       /\ embeddings' = None
                       /\ doc_ids' = <<>>
                       /\ index' = None
                       /\ hist' = NoHist
                       /\ UNCHANGED <<rows, clock, gen, stamp>>
                  ELSE /\ clock + n <= MaxClock
                       /\ \E fault \in Faults :
                          /\ FaultApplies(fault, n)
                          /\ LET out == build_index(scan, texts, meta, rows, clock, FALSE,
                                                    fault, FAISS_AVAILABLE, NoHist)
                             IN
                             /\ rows' = out.rows
                             /\ clock' = out.clock
                             /\ embeddings' = IF out.ok THEN out.embeddings ELSE None
                             /\ doc_ids' = IF out.ok THEN out.doc_ids ELSE <<>>
                             /\ index' = IF out.ok THEN out.index ELSE None
                             /\ hist' = [called |-> TRUE, ok |-> out.ok, texts |-> texts,
                                         rows |-> out.rows]
                             /\ engine' = IF out.ok THEN Some("SearchEngine") ELSE None
                             /\ obs' = [out.obs EXCEPT !.op = "startup"]
                             /\ gen' = IF out.ok THEN 1 ELSE 0
                             /\ stamp' = IF out.ok
                                         THEN [emb |-> 1, normalized |-> TRUE, ids |-> 1,
                                               idx |-> 1]
                                         ELSE NoStamp
    /\ UNCHANGED <<envVars, bld, srch>>

\* mutant: the handler passes every request on to engine.search
ApiSearch_NoValidation(query, top_k) ==
    /\ proc = "api"
    /\ srch.pc = "idle"
    /\ IF engine = None
       THEN obs' = [ApiObs("api_search", "503") EXCEPT !.query = query, !.top_k = top_k]
                /\ UNCHANGED srch
       ELSE /\ srch' = [IdleSrch EXCEPT !.pc = "retrieve", !.query = query,
                                        !.top_k = top_k]
            /\ obs' = ApiObs("pending", "")
    /\ UNCHANGED <<envVars, installVars, rows, clock, proc, conn, engine, fieldVars,
                   hist, gen, stamp, bld>>

\* POST /search up to the call of engine.search
ApiSearch(query, top_k) ==
    /\ proc = "api"
    /\ srch.pc = "idle"
    /\ IF engine = None
       THEN obs' = [ApiObs("api_search", "503") EXCEPT !.query = query, !.top_k = top_k]
                /\ UNCHANGED srch
       ELSE IF IsBlank(query) \/ top_k < 1
       THEN obs' = [ApiObs("api_search", "400") EXCEPT !.query = query, !.top_k = top_k]
                /\ UNCHANGED srch
       ELSE /\ srch' = [IdleSrch EXCEPT !.pc = "retrieve", !.query = query,
                                        !.top_k = top_k]
            /\ obs' = ApiObs("pending", "")
    /\ UNCHANGED <<envVars, installVars, rows, clock, proc, conn, engine, fieldVars,
                   hist, gen, stamp, bld>>

\* GET /health. The handler is one read of fields that no request changes
\* the length or the presence of, so it is taken between the calls of the
\* worker threads.
health_check ==
    /\ proc = "api"
    /\ bld.pc = "idle" /\ srch.pc = "idle"
    /\ obs' = IF engine = None
              THEN ApiObs("api_health", "503")
              ELSE [ApiObs("api_health", "200") EXCEPT
                      !.results = <<[docs_loaded |-> Len(doc_texts),
                                     index_built |-> index # None \/ embeddings # None]>>]
    /\ UNCHANGED <<envVars, installVars, rows, clock, proc, conn, engine, fieldVars,
                   hist, threadVars>>

\* GET /docs/count
get_doc_count ==
    /\ proc = "api"
    /\ bld.pc = "idle" /\ srch.pc = "idle"
    /\ obs' = IF engine = None
              THEN ApiObs("api_count", "503")
              ELSE [ApiObs("api_count", "200") EXCEPT
                      !.results = <<[count |-> Len(doc_texts),
                                     indexed |-> Len(doc_ids)]>>]
    /\ UNCHANGED <<envVars, installVars, rows, clock, proc, conn, engine, fieldVars,
                   hist, threadVars>>

\* whether the build that wrote a field last is still running
Partial(g) == bld.pc # "idle" /\ g = gen

\* engine.search lines 93-105: embed the query, read the index or the matrix
SearchRetrieve ==
    /\ srch.pc = "retrieve"
    /\ LET r == Retrieve(embeddings, index, use_faiss, srch.query, srch.top_k, tieAsc)
           g == IF use_faiss THEN stamp.idx ELSE stamp.emb
       IN IF r.ok
          THEN /\ srch' = [srch EXCEPT
                             !.pc = "results", !.idxs = r.idxs, !.scores = r.scores,
                             !.read = Some([gen |-> g, partial |-> Partial(g),
                                            normalized |-> use_faiss \/ stamp.normalized])]
               /\ UNCHANGED obs
          ELSE /\ srch' = IdleSrch
               /\ obs' = [ApiObs("api_search", "500") EXCEPT
                            !.query = srch.query, !.top_k = srch.top_k,
                            !.called = TRUE, !.embedded = <<srch.query>>]
    /\ UNCHANGED <<envVars, installVars, rows, clock, proc, conn, engine, fieldVars,
                   hist, gen, stamp, bld>>

\* engine.search lines 107-132 and the handler's return
SearchResults ==
    /\ srch.pc = "results"
    /\ LET r == Results(srch.idxs, srch.scores, doc_ids, doc_texts, srch.query)
       IN obs' = [ApiObs("api_search", IF r.ok THEN "200" ELSE "500") EXCEPT
                    !.query = srch.query, !.top_k = srch.top_k,
                    !.called = TRUE, !.embedded = <<srch.query>>,
                    !.results = r.results,
                    !.reads = Some([first |-> Val(srch.read),
                                    ids |-> [gen |-> stamp.ids,
                                             partial |-> Partial(stamp.ids)]])]
    /\ srch' = IdleSrch
    /\ UNCHANGED <<envVars, installVars, rows, clock, proc, conn, engine, fieldVars,
                   hist, gen, stamp, bld>>

\* POST /rebuild and build_index lines 45-73: the cache checks, the
\* provider call, the cache writes and the stacked matrix
ApiRebuild(force_recompute) ==
    /\ proc = "api"
    /\ bld.pc = "idle"
    /\ IF engine = None
       THEN /\ obs' = ApiObs("api_rebuild", "503")
            /\ UNCHANGED <<rows, clock, hist, gen, bld>>
       ELSE /\ gen < MaxBuilds
            /\ LET scan == Scan(doc_texts, rows, force_recompute)
               IN /\ clock + Len(scan.to_compute) <= MaxClock
                  /\ \E fault \in Faults :
                       /\ FaultApplies(fault, Len(scan.to_compute))
                       /\ LET out == build_index(scan, doc_texts, doc_meta, rows, clock,
                                                 force_recompute, fault, use_faiss, hist)
                          IN /\ rows' = out.rows
                             /\ clock' = out.clock
                             /\ hist' = [called |-> TRUE, ok |-> out.ok,
                                         texts |-> doc_texts, rows |-> out.rows]
                             /\ IF out.assigned
                                THEN /\ bld' = [pc |-> "set_embeddings",
                                                embs |-> out.embs,
                                                ids |-> out.doc_ids,
                                                fault |-> fault]
                                     /\ gen' = gen + 1
                                     /\ obs' = ApiObs("pending", "")
                                ELSE /\ obs' = [out.obs EXCEPT !.op = "api_rebuild",
                                                               !.status = "500"]
                                     /\ UNCHANGED <<gen, bld>>
    /\ UNCHANGED <<envVars, installVars, proc, conn, engine, fieldVars, stamp, srch>>

\* line 74: self.embeddings = embs
BuildSetEmbeddings ==
    /\ bld.pc = "set_embeddings"
    /\ embeddings' = Some(bld.embs)
    /\ stamp' = [stamp EXCEPT !.emb = gen, !.normalized = FALSE]
    /\ bld' = [bld EXCEPT !.pc = "set_doc_ids"]
    /\ UNCHANGED <<envVars, installVars, rows, clock, proc, conn, engine, use_faiss,
                   doc_texts, doc_meta, doc_ids, index, obs, hist, gen, srch>>

\* line 75: self.doc_ids = doc_ids
BuildSetDocIds ==
    /\ bld.pc = "set_doc_ids"
    /\ doc_ids' = bld.ids
    /\ stamp' = [stamp EXCEPT !.ids = gen]
    /\ bld' = [bld EXCEPT !.pc = "normalize"]
    /\ UNCHANGED <<envVars, installVars, rows, clock, proc, conn, engine, use_faiss,
                   doc_texts, doc_meta, embeddings, index, obs, hist, gen, srch>>

\* line 80 (in place) or lines 87-89 (reassigned): the rows are normalized,
\* or the statement raises and /rebuild answers 500
BuildNormalize ==
    /\ bld.pc = "normalize"
    /\ IF bld.fault = -2
       THEN /\ bld' = IdleBld
            /\ obs' = [ApiObs("api_rebuild", "500") EXCEPT !.fault = bld.fault,
                                                           !.scan_ids = bld.ids]
            /\ UNCHANGED <<embeddings, stamp>>
       ELSE /\ embeddings' = Some(NormalizeRows(Val(embeddings)))
            /\ stamp' = [stamp EXCEPT !.normalized = TRUE]
            /\ bld' = [bld EXCEPT !.pc = "set_index"]
            /\ UNCHANGED obs
    /\ UNCHANGED <<envVars, installVars, rows, clock, proc, conn, engine, use_faiss,
                   doc_texts, doc_meta, doc_ids, index, hist, gen, srch>>

\* lines 81-84 or line 90: self.index is assigned, and /rebuild answers
BuildSetIndex ==
    /\ bld.pc = "set_index"
    /\ index' = IF use_faiss THEN Some(Val(embeddings)) ELSE None
    /\ stamp' = [stamp EXCEPT !.idx = gen]
    /\ bld' = IdleBld
    /\ obs' = [ApiObs("api_rebuild", "200") EXCEPT !.scan_ids = bld.ids]
    /\ UNCHANGED <<envVars, installVars, rows, clock, proc, conn, engine, use_faiss,
                   doc_texts, doc_meta, embeddings, doc_ids, hist, gen, srch>>

\* lifespan after the yield; the process ends
ApiShutdown ==
    /\ proc = "api"
    /\ bld.pc = "idle"
    /\ srch.pc = "idle"
    /\ proc' = "down"
    /\ conn' = IF engine # None THEN "closed" ELSE conn
    /\ engine' = None
    /\ use_faiss' = FALSE
    /\ doc_texts' = <<>>
    /\ doc_meta' = <<>>
    /\ embeddings' = None
    /\ doc_ids' = <<>>
    /\ index' = None
    /\ hist' = NoHist
    /\ gen' = 0
    /\ stamp' = NoStamp
    /\ obs' = ApiObs("shutdown", "ok")
    /\ tieAsc' = TRUE
    /\ UNCHANGED <<envVars, rows, clock, bld, srch>>

Next ==
    \/ MakeDocsFolder
    \/ \E f \in Range(TxtFiles) : \E raw \in FileTexts(f) : WriteFile(f, raw)
    \/ \E f \in Range(TxtFiles) : DeleteFile(f)
    \/ save_dataset
    \/ \E a \in BOOLEAN, avail \in BOOLEAN : LibStart(a, avail)
    \/ LoadDocs
    \/ \E force \in BOOLEAN : BuildIndex(force)
    \/ \E q \in LibQueries, k \in LibTopKs : Search(q, k)
    \/ LibExit

Spec == Init /\ [][Next]_vars

NextApi ==
    \/ MakeDocsFolder
    \/ \E f \in Range(TxtFiles) : \E raw \in FileTexts(f) : WriteFile(f, raw)
    \/ \E f \in Range(TxtFiles) : DeleteFile(f)
    \/ save_dataset
    \/ \E avail \in BOOLEAN : ApiStartup(avail)
    \/ \E q \in Queries, k \in TopKs : ApiSearch(q, k)
    \/ SearchRetrieve
    \/ SearchResults
    \/ health_check
    \/ get_doc_count
    \/ \E force \in BOOLEAN : ApiRebuild(force)
    \/ BuildSetEmbeddings
    \/ BuildSetDocIds
    \/ BuildNormalize
    \/ BuildSetIndex
    \/ ApiShutdown

SpecApi == Init /\ [][NextApi]_vars

\* =================================================================== claims
DocIdSet == {TxtFiles[i].stem : i \in 1..Len(TxtFiles)}

CleanTexts == {clean_text(raw) : raw \in RawTexts}

ResultIds(results) == [p \in 1..Len(results) |-> results[p].doc_id]

\* position of a document in a list of doc ids
PosOf(ids, d) == CHOOSE i \in 1..Len(ids) : ids[i] = d

\* the three logical states of the engine
Indexed ==
    /\ embeddings # None
    /\ doc_ids = Keys(doc_texts)
    /\ Val(embeddings) = [i \in 1..Len(doc_texts) |-> Normalize(Encode(doc_texts[i].value))]
    /\ use_faiss => index = embeddings

EngineState ==
    IF Indexed THEN "Indexed"
    ELSE IF doc_texts = <<>> /\ embeddings = None THEN "Uninitialized"
    ELSE "Loaded"

\* C1. Cache coherence: of two consecutive build_index calls of one engine,
\* the second with force_recompute false, the first left a vector in the
\* cache for every document it was given if it returned; and every document
\* whose text is unchanged between the calls and for whose text the cache
\* held a vector when the first call ended is kept out of the second call's
\* provider call, and the vector stacked for it is that very vector.
C1_CacheCoherence ==
    (obs.op = "build" /\ ~obs.force) =>
        \A k \in obs.kept :
            /\ k.ok => k.vec # None
            /\ k.vec # None =>
                  /\ k.doc_id \notin obs.computed_ids
                  /\ obs.emb_list # None =>
                        Val(obs.emb_list)[PosOf(obs.scan_ids, k.doc_id)] = Val(k.vec)

\* a second build that kept one document from the cache and embedded another
C1_Witness ==
    /\ obs.op = "build" /\ ~obs.force /\ obs.status = "ok"
    /\ \E k \in obs.kept : k.ok /\ k.vec # None
    /\ obs.computed_ids # {}

\* C2. Forced recompute: build_index(force_recompute=true) passes the text of
\* every loaded document to the provider, in document order, also those whose
\* cached hash equals the current one, and when neither the provider nor the
\* cache fails every one of them has a cache entry written by this call.
C2_ForcedRecompute ==
    (obs.op = "build" /\ obs.force) =>
        /\ obs.computed_ids = Range(Keys(doc_texts))
        /\ obs.embedded = [i \in 1..Len(doc_texts) |-> doc_texts[i].value]
        /\ obs.called = (doc_texts # <<>>)
        /\ obs.fault = 0 =>
              /\ obs.written = Range(Keys(doc_texts))
              /\ \A i \in 1..Len(doc_texts) :
                    \E r \in rows :
                        /\ r.doc_id = doc_texts[i].key
                        /\ r.hash = sha256(doc_texts[i].value)
                        /\ loads(r.embedding) = Encode(doc_texts[i].value)
                        /\ r.updated_at > clock - Len(doc_texts)

\* a forced build over documents the cache already held unchanged
C2_Witness ==
    /\ obs.op = "build" /\ obs.force /\ obs.status = "ok"
    /\ obs.kept # {}
    /\ \A k \in obs.kept : k.vec # None /\ k.doc_id \in obs.written

\* C3. Cache pairing: in every reachable state the hash of every cache entry
\* is the sha256 of the text whose embedding the entry holds.
C3_CachePairing ==
    \A r \in rows :
        \E text \in CleanTexts :
            /\ r.hash = sha256(text)
            /\ loads(r.embedding) = Encode(text)

\* a build that failed in its second cache write, leaving the first written
C3_Witness ==
    /\ obs.op = "build" /\ obs.status = "error" /\ obs.fault = 2
    /\ obs.written # {}
    /\ \E r1 \in rows, r2 \in rows : r1.hash # r2.hash

\* C4 (as claimed). top_k clamping: a search of an index of N documents with
\* top_k > N returns, on either backend, exactly N results with no doc_id
\* repeated and no padding entry, and does not fail.
C4_TopKClamping ==
    (/\ obs.op = "search" /\ ~IsBlank(obs.query)
     /\ embeddings # None /\ obs.top_k > Len(doc_ids)) =>
        /\ obs.status = "ok"
        /\ Len(obs.results) = Len(doc_ids)
        /\ \A p, q \in 1..Len(obs.results) :
              p # q => obs.results[p].doc_id # obs.results[q].doc_id
        /\ \A p \in 1..Len(obs.results) : obs.results[p].score # FaissMissingScore

C6_EmptyBuild ==
    (obs.op = "build" /\ obs.scan_ids = <<>>) =>
        /\ obs.status = "ok"
        /\ embeddings # None

\* C7 (as claimed). Lifecycle: search returns results only in state Indexed;
\* in Uninitialized and in Loaded, a stale index included, it reports an error.
C7_Lifecycle ==
    (obs.op = "search" /\ ~IsBlank(obs.query) /\ obs.status = "ok") =>
        EngineState = "Indexed"

\* C8 (as claimed). No partially rebuilt index: a /search that returns while
\* /rebuild runs has read the matrix or index handle and doc_ids from one
\* completed build, and never a matrix not yet normalized.
C8_NoPartialIndex ==
    (obs.op = "api_search" /\ obs.status = "200") =>
        LET r == Val(obs.reads)
        IN /\ ~r.first.partial
           /\ ~r.ids.partial
           /\ r.first.gen = r.ids.gen
           /\ r.first.normalized

\* what a cache.upsert of this step wrote, by doc_id
WrittenNow == IF clock' # clock THEN obs'.written ELSE {}

OnePerDocId == \A r1, r2 \in rows : r1.doc_id = r2.doc_id => r1 = r2

\* C9. Upsert is last-write-wins by doc_id: the table never holds two
\* records of one doc_id; after a step get(doc_id) returns the hash and the
\* embedding of the upsert the step made for that doc_id, and what it
\* returned before for every other doc_id (nothing if there was no upsert);
\* an upsert repeating the stored hash and embedding leaves them as they are.
C9_LastWriteWins ==
    /\ []OnePerDocId
    /\ [][\A d \in DocIdSet :
            IF d \in WrittenNow
            THEN /\ get(rows', d) # None
                 /\ Val(get(rows', d)).hash = sha256(Lookup(doc_texts, d))
                 /\ Val(get(rows', d)).embedding = Encode(Lookup(doc_texts, d))
                 /\ Val(get(rows', d)).updated_at > clock
            ELSE get(rows', d) = get(rows, d)]_vars

\* a forced build wrote again, unchanged, an entry the cache already held
C9_Witness ==
    /\ obs.op = "build" /\ obs.force
    /\ \E k \in obs.kept : k.doc_id \in obs.written /\ k.vec # None
    /\ \E r \in rows : r.doc_id \notin obs.written

\* C10. Ranking on the fallback backend: the scores of a result list do not
\* increase, and of two consecutive searches of one index for one query the
\* doc_ids returned for the smaller top_k are a prefix of those for the larger.
C10_Ranking ==
    /\ [](obs.op = "search" /\ obs.status = "ok" /\ ~use_faiss =>
            \A p, q \in 1..Len(obs.results) :
                p < q => obs.results[p].score >= obs.results[q].score)
    /\ [][(/\ obs.op = "search" /\ obs.status = "ok"
           /\ obs'.op = "search" /\ obs'.status = "ok"
           /\ ~use_faiss
           /\ obs.query = obs'.query
           /\ obs.top_k # obs'.top_k)
          => LET small == IF obs.top_k < obs'.top_k THEN obs.results ELSE obs'.results
                 large == IF obs.top_k < obs'.top_k THEN obs'.results ELSE obs.results
             IN /\ Len(small) <= Len(large)
                /\ ResultIds(small) = SubSeq(ResultIds(large), 1, Len(small))]_vars

\* a fallback search that ranked two documents of different similarity
C10_Witness ==
    /\ obs.op = "search" /\ obs.status = "ok" /\ ~use_faiss
    /\ Len(obs.results) >= 2
    /\ obs.results[1].score > obs.results[2].score
    /\ obs.results[1].doc_id = doc_ids[2]

\* C11 (as claimed). Guaranteed release: when shutdown has completed, the
\* sqlite connection a SearchEngine opened during startup is closed, on every
\* startup path, those where build_index raised after the engine was
\* constructed included.
C11_GuaranteedRelease ==
    (obs.op = "shutdown") => conn # "open"

\* C12. Positional correspondence: after every build_index that returned,
\* doc_ids is the loaded documents in load order, the list stacked into the
\* matrix and the matrix have one row per doc_id, and row i is the embedding
\* of the text of doc_ids[i] (normalized in the matrix), whatever mix of cache
\* hits and misses the call had.
C12_PositionalCorrespondence ==
    (obs.op = "build" /\ obs.status = "ok") =>
        /\ doc_ids = Keys(doc_texts)
        /\ obs.scan_ids = doc_ids
        /\ Len(Val(obs.emb_list)) = Len(doc_ids)
        /\ Len(Val(embeddings)) = Len(doc_ids)
        /\ \A i \in 1..Len(doc_ids) :
              /\ Val(obs.emb_list)[i] = Encode(Lookup(doc_texts, doc_ids[i]))
              /\ Val(embeddings)[i] = Normalize(Encode(Lookup(doc_texts, doc_ids[i])))
              /\ use_faiss => Val(index)[i] = Val(embeddings)[i]

\* a build of two documents with different vectors, one a cache hit and the
\* other a miss
C12_Witness ==
    /\ obs.op = "build" /\ obs.status = "ok"
    /\ Len(doc_ids) = 2
    /\ Val(embeddings)[1] # Val(embeddings)[2]
    /\ Cardinality(obs.computed_ids) = 1

\* the IndexState a build_index call over the loaded documents publishes
NewIndexState(ids, emb, idx) ==
    /\ ids = Keys(doc_texts)
    /\ emb = Some([i \in 1..Len(doc_texts) |-> Normalize(Encode(doc_texts[i].value))])
    /\ idx = IF use_faiss THEN emb ELSE None

\* C13 (as claimed). Atomic replacement: whether a build_index call returns
\* or raises (provider failure, storage failure in an upsert, failure while
\* stacking or indexing the matrix), doc_ids, embeddings and the index handle
\* are afterwards all three what they were before the call or all three those
\* of the new build.
C13_AtomicReplacement ==
    [][obs'.op = "build" =>
          \/ UNCHANGED <<doc_ids, embeddings, index>>
          \/ NewIndexState(doc_ids', embeddings', index')]_vars

\* a step that is one build_index call of a script's engine
BuildStep == obs'.op = "build" /\ UNCHANGED envVars

\* the loaded documents without a valid cache entry before a build_index call
StaleBefore(force) ==
    {d \in Range(Keys(doc_texts)) :
        \/ get(rows, d) = None
        \/ Val(get(rows, d)).hash # sha256(Lookup(doc_texts, d))
        \/ force}

\* C14. Staleness repair: build_index gives to the provider exactly the
\* documents whose entry is absent, whose stored hash differs from the sha256
\* of the current text, or all of them when force_recompute is set; it writes
\* entries of these documents only, all of them unless the provider or an
\* upsert raises; and after a call that returned every loaded document has an
\* entry whose hash is the sha256 of its current text.
C14_StalenessRepair ==
    [][BuildStep =>
          /\ obs'.computed_ids = StaleBefore(obs'.force)
          /\ obs'.written \subseteq StaleBefore(obs'.force)
          /\ obs'.fault \in {0, -2} => obs'.written = StaleBefore(obs'.force)
          /\ obs'.status = "ok" =>
                \A d \in Range(Keys(doc_texts)) :
                    /\ get(rows', d) # None
                    /\ Val(get(rows', d)).hash = sha256(Lookup(doc_texts, d))]_vars

\* a build without force_recompute that wrote again the entry of d2, whose
\* text had changed since it was cached, and kept the entry of d1
C14_Witness ==
    /\ obs.op = "build" /\ obs.status = "ok" /\ ~obs.force
    /\ obs.written = {"d2"}
    /\ clock = 3
    /\ \E r \in rows : r.doc_id = "d1" /\ r.updated_at = 1
    /\ \E r \in rows : r.doc_id = "d2" /\ r.updated_at = 3

\* the texts of the cache-miss documents of a build_index call, in document
\* order
MissTexts(force) ==
    LET ids == SelectSeq(Keys(doc_texts), LAMBDA d : d \in StaleBefore(force))
    IN [j \in 1..Len(ids) |-> Lookup(doc_texts, ids[j])]

\* C15. Batching: a build_index call makes at most one call of the provider;
\* the call carries the texts of exactly the cache-miss documents, in document
\* order, and none is made when there is no cache miss.
C15_Batching ==
    [][BuildStep =>
          /\ Len(obs'.embed_calls) <= 1
          /\ obs'.embed_calls = IF StaleBefore(obs'.force) = {} THEN <<>>
                                ELSE <<MissTexts(obs'.force)>>]_vars

\* a build that sent two different texts in its one provider call
C15_Witness ==
    /\ obs.op = "build"
    /\ Len(obs.embed_calls) = 1
    /\ Len(obs.embed_calls[1]) = 2
    /\ obs.embed_calls[1][1] # obs.embed_calls[1][2]

\* the entries a build_index call wrote are complete hash and embedding pairs
WrittenComplete ==
    obs.op = "build" =>
        \A d \in obs.written :
            /\ get(rows, d) # None
            /\ Val(get(rows, d)).hash = sha256(Lookup(doc_texts, d))
            /\ Val(get(rows, d)).embedding = Encode(Lookup(doc_texts, d))

\* C16. Recovery after a mid-batch failure: the entries written by a
\* build_index call, one that failed in its upsert loop included, are complete
\* hash and embedding pairs and valid; and the next build_index call, when
\* nothing fails in it, embeds exactly the documents left without a valid
\* entry (those the failed call was to compute and did not write; all
\* documents if it is forced), returns, and leaves the engine Indexed over
\* all loaded documents.
C16_Recovery ==
    /\ []WrittenComplete
    /\ [][(/\ obs.op = "build" /\ obs.fault >= 1
           /\ BuildStep /\ obs'.fault = 0)
          => /\ StaleBefore(FALSE) \cap obs.written = {}
             /\ ~obs.force => StaleBefore(FALSE) = obs.computed_ids \ obs.written
             /\ obs'.computed_ids = StaleBefore(obs'.force)
             /\ obs'.status = "ok"
             /\ Indexed']_vars

\* a build that returned after the call before it on this engine had failed,
\* taking the entry of d1 that was written first and writing that of d2
C16_Witness ==
    /\ obs.op = "build" /\ obs.status = "ok" /\ ~obs.force
    /\ \E k \in obs.kept : k.doc_id = "d1" /\ ~k.ok /\ k.vec # None
    /\ \E k \in obs.kept : k.doc_id = "d2" /\ ~k.ok /\ k.vec = None
    /\ obs.written = {"d2"}
    /\ \E r \in rows : r.doc_id = "d1" /\ r.updated_at = 1
    /\ clock = 2
    /\ Indexed

\* C17. Frame of a rebuild: a build_index call without force_recompute leaves
\* as it is, updated_at included, every cache entry of a valid-cached
\* document and every entry of a doc_id that is not loaded (so after one
\* document was added only its entry is written), and no step removes the
\* entry of a doc_id from the cache.
C17_RebuildFrame ==
    /\ [][(BuildStep /\ ~obs'.force) =>
             \A r \in rows : r.doc_id \notin StaleBefore(FALSE) => r \in rows']_vars
    /\ [][\A r \in rows : \E r2 \in rows' : r2.doc_id = r.doc_id]_vars

\* a build without force_recompute of an engine with a valid-cached document,
\* while the cache held, from an earlier run, the entry of a document that
\* this engine has not loaded
C17_Witness ==
    /\ obs.op = "build" /\ ~obs.force /\ obs.status = "ok"
    /\ \E r \in rows : r.doc_id \notin Range(Keys(doc_texts))
    /\ \E r \in rows : /\ r.doc_id \in Range(Keys(doc_texts))
                       /\ r.doc_id \notin obs.written
                       /\ r.updated_at < clock

\* C18 (as claimed). Deterministic tie-breaking on the fallback backend: of
\* two indexed documents with equal similarity to the query the one earlier in
\* doc_ids is returned first: every document that stands before a returned
\* one in doc_ids and has the same similarity is returned before it.
C18_TieBreaking ==
    (obs.op = "search" /\ obs.status = "ok" /\ ~use_faiss /\ Indexed) =>
        LET sims == Sims(Val(embeddings), NormalizeQuery(embed_one(obs.query)))
            pos(p) == PosOf(doc_ids, obs.results[p].doc_id)
        IN \A p \in 1..Len(obs.results) : \A i \in 1..Len(doc_ids) :
              (i < pos(p) /\ sims[i] = sims[pos(p)]) =>
                  \E p2 \in 1..(p - 1) : pos(p2) = i


\* ---------------------------------------------------------------------
\* C19  API lifecycle: while the server runs, the global engine is set only
\* if the startup's load_docs and build_index both returned (its embeddings,
\* and its FAISS index when FAISS is used, were built then); a startup that
\* found no folder, no documents, or raised leaves the engine None; with the
\* engine None every /search, /rebuild, /health and /docs/count request is
\* answered 503 without touching the engine; and a /search worker only ever
\* runs on an engine whose index was built.
ApiRequests == {"api_search", "api_rebuild", "api_health", "api_count"}

C19_ApiLifecycle ==
    /\ (proc = "api" /\ engine # None) =>
           /\ hist.called /\ gen >= 1
           /\ conn = "open"
           /\ embeddings # None
           /\ use_faiss => index # None
           /\ Keys(doc_texts) # <<>>
    /\ obs.op = "startup" =>
           /\ (engine # None) = (obs.status = "ok")
           /\ (~docs_exists \/ Keys(doc_texts) = <<>> \/ obs.fault # 0) => engine = None
    /\ (proc = "api" /\ engine = None) =>
           /\ bld.pc = "idle" /\ srch.pc = "idle"
           /\ obs.op \in ApiRequests => obs.status = "503"
    /\ srch.pc # "idle" => engine # None /\ gen >= 1 /\ embeddings # None

\* a /search answered 503 by a server whose startup loaded the (empty or
\* failing) folder and dropped the engine it had constructed
C19_Witness ==
    /\ proc = "api" /\ engine = None /\ docs_exists /\ conn = "open"
    /\ obs.op = "api_search" /\ obs.status = "503"


\* ---------------------------------------------------------------------
\* C20  Stable positions: within one engine instance no step removes or
\* moves a loaded document (the keys of doc_texts before a step are a
\* prefix of the keys after it), the doc_ids of the engine before a step are
\* a prefix of the doc_ids after it, so every position keeps its doc_id
\* across load_docs and build_index calls; and a document whose file was
\* deleted stays loaded, and is indexed by every later successful build.
IsPrefix(s, t) == Len(s) <= Len(t) /\ \A i \in 1..Len(s) : s[i] = t[i]

SameEngine == proc = "lib" /\ proc' = "lib"

C20_StablePositions ==
    /\ [](proc = "lib" => IsPrefix(doc_ids, Keys(doc_texts)))
    /\ [][SameEngine =>
            /\ IsPrefix(Keys(doc_texts), Keys(doc_texts'))
            /\ IsPrefix(doc_ids, doc_ids')
            /\ \A i \in 1..Len(doc_ids) : PosOf(doc_ids', doc_ids[i]) = i
            /\ (obs'.op = "build" /\ obs'.status = "ok") =>
                   \A d \in Range(Keys(doc_texts)) : d \in Range(doc_ids')]_vars

\* load_docs has just run on a folder from which the file of an indexed
\* document was deleted: the document is still loaded, at its position
C20_Witness ==
    /\ proc = "lib" /\ obs.op = "load" /\ obs.status = "ok"
    /\ embeddings # None /\ Len(doc_ids) = 2
    /\ doc_ids = Keys(doc_texts)
    /\ \E f \in Range(TxtFiles) : f.stem = doc_ids[1] /\ disk[f] = NoFile
====
